---- MODULE Spec2Model ----
(***************************************************************************)
(* Model of electron/bundler.py: the pipeline main() runs inside a        *)
(* tempfile.TemporaryDirectory: extract_electron, create_app_bundle and   *)
(* create_tar_archive, over an explicit filesystem.                       *)
(*                                                                         *)
(* A filesystem is a function from paths to nodes.  A path is a sequence  *)
(* of names; the paths of the staging tree are relative to temp_dir,      *)
(* which is the empty path <<>>.  A node is a record                      *)
(*   [kind: "dir" | "file" | "link", mode, data, target]                  *)
(* where data is a file's text and target a symbolic link's (relative)    *)
(* target path.  In all the inputs enumerated here every path component   *)
(* but the last is a real directory, so only the last component of a      *)
(* path is ever a symbolic link.                                          *)
(***************************************************************************)
EXTENDS Integers, Sequences, FiniteSets, TLC

VARIABLES
    pc,                 \* position of main() / create_app_bundle / create_tar_archive
    argc,               \* len(sys.argv)
    app_name,           \* sys.argv[2]
    main_js_path,       \* sys.argv[3], a path of the host filesystem
    index_html_path,    \* sys.argv[4]
    electron_zip,       \* contents of the archive at sys.argv[5]
    asset_paths,        \* sys.argv[6:]
    fs,                 \* the tree under temp_dir; the empty function when temp_dir does not exist
    electron_app_path,  \* result of the os.walk loop (None is modelled as <<>>)
    app_bundle_path,    \* os.path.join(temp_dir, f"{app_name}.app")
    asset_idx,          \* index of the asset the for loop of line 60 handles next
    output_tar,         \* the file at sys.argv[1]: [state, entries]
    exc                 \* the exception propagating out of the with block, "none" if none

vars == <<pc, argc, app_name, main_js_path, index_html_path, electron_zip,
          asset_paths, fs, electron_app_path, app_bundle_path, asset_idx,
          output_tar, exc>>

-----------------------------------------------------------------------------
(* Bounds of the model *)

MaxAssets == 2

MaxPlistLen == 2

-----------------------------------------------------------------------------
(* Paths and nodes *)

DirNode == [kind |-> "dir", mode |-> 493, data |-> "", target |-> <<>>]

FileNode(mode, data) == [kind |-> "file", mode |-> mode, data |-> data, target |-> <<>>]

\* lstat of a symbolic link reports mode 0o777
LinkNode(target) == [kind |-> "link", mode |-> 511, data |-> "", target |-> target]

EmptyFS == [p \in {} |-> DirNode]

Parent(p) == SubSeq(p, 1, Len(p) - 1)

basename(p) == p[Len(p)]

IsPrefix(a, b) == Len(a) <= Len(b) /\ SubSeq(b, 1, Len(a)) = a

Rel(p, base) == SubSeq(p, Len(base) + 1, Len(p))

Ancestors(p) == {SubSeq(p, 1, k) : k \in 0..(Len(p) - 1)}

\* a tree from its leaves: every ancestor directory is added
WithDirs(leaves) ==
    LET dirs == (UNION {Ancestors(p) : p \in DOMAIN leaves}) \ DOMAIN leaves
    IN  [p \in dirs |-> DirNode] @@ leaves

\* the tree re-rooted at prefix
Under(prefix, tree) ==
    [q \in {prefix \o p : p \in DOMAIN tree} |-> tree[Rel(q, prefix)]]

endswith(name, suffix) ==
    /\ Len(name) >= Len(suffix)
    /\ SubSeq(name, Len(name) - Len(suffix) + 1, Len(name)) = suffix

lexists(f, p) == p \in DOMAIN f

islink(f, p) == lexists(f, p) /\ f[p].kind = "link"

\* the path a stat() of p reaches, following symbolic links: {} when p does not
\* exist, dangles or loops
RECURSIVE FollowLinks(_, _, _)
FollowLinks(f, p, hops) ==
    IF ~lexists(f, p) THEN {}
    ELSE IF f[p].kind # "link" THEN {p}
    ELSE IF hops = 0 THEN {}
    ELSE FollowLinks(f, Parent(p) \o f[p].target, hops - 1)

realpath(f, p) == FollowLinks(f, p, Cardinality(DOMAIN f))

exists(f, p) == realpath(f, p) # {}

isdir(f, p) == \E q \in realpath(f, p) : f[q].kind = "dir"

isfile(f, p) == \E q \in realpath(f, p) : f[q].kind = "file"

listdir(f, d) == {p \in DOMAIN f : Len(p) = Len(d) + 1 /\ IsPrefix(d, p)}

Subtree(f, d) == {p \in DOMAIN f : IsPrefix(d, p)}

-----------------------------------------------------------------------------
(* Fixed paths inside the bundle *)

ExeRel == <<"Contents", "MacOS", "Electron">>

VersionsA == <<"Contents", "Frameworks", "Electron Framework.framework", "Versions", "A">>

FrameworkRel == VersionsA \o <<"Electron Framework">>

HelpersRel == VersionsA \o <<"Helpers">>

LibsRel == VersionsA \o <<"Libraries">>

InfoPlistRel == <<"Contents", "Info.plist">>

ResourcesRel == <<"Contents", "Resources", "app">>

DisplayString == "<string>Electron</string>"

PackageString == "<string>com.github.Electron</string>"

NewDisplayString(name) == "<string>" \o name \o "</string>"

NewPackageString(name) == "<string>com.gazel." \o name \o "</string>"

-----------------------------------------------------------------------------
(* The host filesystem the command-line paths name.  Every host path maps  *)
(* to the tree found there (a single file node, or a directory with its    *)
(* contents); a path outside the domain does not exist.                    *)

HostFS ==
    (<<"main.js">> :> (<<>> :> FileNode(420, "js")))
    @@ (<<"index.html">> :> (<<>> :> FileNode(420, "html")))
    @@ (<<"icon.png">> :> (<<>> :> FileNode(384, "png")))
    @@ (<<"data">> :> WithDirs(<<"d.txt">> :> FileNode(420, "d")))
    @@ (<<"alt", "main.js">> :> WithDirs(<<"x.js">> :> FileNode(420, "x")))

MissingHostPath == <<"missing.bin">>

host_isfile(h) == h \in DOMAIN HostFS /\ HostFS[h][<<>>].kind = "file"

host_isdir(h) == h \in DOMAIN HostFS /\ HostFS[h][<<>>].kind = "dir"

-----------------------------------------------------------------------------
(* The runtime archives enumerated as inputs *)

SeqsUpTo(S, n) == UNION {[1..k -> S] : k \in 0..n}

RECURSIVE JoinText(_)
JoinText(s) == IF s = <<>> THEN "" ELSE Head(s) \o JoinText(Tail(s))

PlistTokens == {DisplayString, PackageString, "<key>CFBundleName</key>"}

PlistTexts == {JoinText(s) : s \in SeqsUpTo(PlistTokens, MaxPlistLen)}

CoreLeaves ==
    <<"Contents", "Resources", "default_app.asar">> :> FileNode(420, "asar")

DefaultPlistLeaves == InfoPlistRel :> FileNode(420, DisplayString \o PackageString)

ExeLeaves(v) ==
    CASE v = "absent" -> EmptyFS
      [] v = "file644" -> ExeRel :> FileNode(420, "exe")
      [] v = "file600" -> ExeRel :> FileNode(384, "exe")
      [] v = "link" -> (ExeRel :> LinkNode(<<"Electron.bin">>))
                       @@ ((Parent(ExeRel) \o <<"Electron.bin">>) :> FileNode(420, "exe"))

FrameworkLeaves(v) ==
    CASE v = "absent" -> EmptyFS
      [] v = "file644" -> FrameworkRel :> FileNode(420, "fw")
      [] v = "link" -> (FrameworkRel :> LinkNode(<<"Framework.bin">>))
                       @@ ((VersionsA \o <<"Framework.bin">>) :> FileNode(420, "fw"))

HelperLibLeaves ==
    ((HelpersRel \o <<"Electron Helper">>) :> FileNode(420, "helper"))
    @@ ((HelpersRel \o <<"Helper alias">>) :> LinkNode(<<"Electron Helper">>))
    @@ ((HelpersRel \o <<"Helper.app", "bin">>) :> FileNode(420, "bin"))
    @@ ((LibsRel \o <<"libEGL.dylib">>) :> FileNode(420, "egl"))
    @@ ((LibsRel \o <<"libGL.dylib">>) :> LinkNode(<<"libEGL.dylib">>))
    @@ ((LibsRel \o <<"vk_icd.json">>) :> FileNode(420, "json"))
    @@ ((LibsRel \o <<"libvk.dylib">>) :> LinkNode(<<"vk_icd.json">>))

BaseLeaves ==
    CoreLeaves @@ DefaultPlistLeaves @@ ExeLeaves("file644") @@ FrameworkLeaves("file644")

\* bundles for the runs that vary the entry files and the asset list
BundlesForAssets ==
    {BaseLeaves,
     BaseLeaves @@ ((ResourcesRel \o <<"data", "old.txt">>) :> FileNode(420, "old"))}

\* bundles that vary the permission targets
BundlesForBinaries ==
    {CoreLeaves @@ DefaultPlistLeaves @@ ExeLeaves(e) @@ FrameworkLeaves(f) @@ h :
        e \in {"absent", "file644", "file600", "link"},
        f \in {"absent", "file644", "link"},
        h \in {EmptyFS, HelperLibLeaves}}

\* bundles that vary the metadata descriptor
BundlesForPlist ==
    {CoreLeaves @@ ExeLeaves("file644") @@ FrameworkLeaves("file644")}
    \cup {CoreLeaves @@ ExeLeaves("file644") @@ FrameworkLeaves("file644")
            @@ (InfoPlistRel :> FileNode(420, t)) : t \in PlistTexts}

Layouts == {"top", "nested", "two", "none", "target", "occupied"}

\* the archive tree: where the bundle lies in the archive, and what lies beside it
ArchiveTree(layout, bundle) ==
    LET B == WithDirs(bundle)
    IN  CASE layout = "top" ->
               WithDirs(Under(<<"Electron.app">>, B) @@ (<<"LICENSE">> :> FileNode(420, "lic")))
          [] layout = "nested" ->
               WithDirs(Under(<<"electron-v1", "Electron.app">>, B)
                        @@ (<<"electron-v1", "LICENSE">> :> FileNode(420, "lic"))
                        @@ (<<"electron-v1", "LICENSE.link">> :> LinkNode(<<"LICENSE">>)))
          [] layout = "two" ->
               WithDirs(Under(<<"a", "Electron.app">>, B) @@ Under(<<"b", "Electron.app">>, B))
          [] layout = "none" ->
               WithDirs(<<"docs", "LICENSE">> :> FileNode(420, "lic"))
          [] layout = "target" ->
               WithDirs(Under(<<"Electron.app">>, B)
                        @@ (<<"Foo.app", "README">> :> FileNode(420, "readme")))
          [] layout = "occupied" ->
               WithDirs(Under(<<"Electron.app">>, B)
                        @@ (<<"Foo.app", "Electron.app", "README">> :> FileNode(420, "readme")))

AppNames == {"Foo", "Electron", "com.github.Electron"}

AssetChoices == {<<"icon.png">>, <<"data">>, <<"alt", "main.js">>, MissingHostPath}

\* the command lines that pass argument validation
CommandLines ==
    [bundle : BundlesForAssets, layout : Layouts, app : AppNames,
     main : {<<"main.js">>, MissingHostPath}, index : {<<"index.html">>, MissingHostPath},
     assets : SeqsUpTo(AssetChoices, MaxAssets)]
    \cup
    [bundle : BundlesForBinaries \cup BundlesForPlist, layout : Layouts, app : AppNames,
     main : {<<"main.js">>}, index : {<<"index.html">>}, assets : {<<>>}]

NoOutput == [state |-> "absent", entries |-> EmptyFS]

Init ==
    /\ pc = "main"
    /\ fs = EmptyFS
    /\ electron_app_path = <<>>
    /\ app_bundle_path = <<>>
    /\ asset_idx = 1
    /\ output_tar = NoOutput
    /\ exc = "none"
    /\ \/ \E c \in CommandLines :
            /\ argc = 6 + Len(c.assets)
            /\ app_name = c.app
            /\ main_js_path = c.main
            /\ index_html_path = c.index
            /\ electron_zip = ArchiveTree(c.layout, c.bundle)
            /\ asset_paths = c.assets
       \/ /\ argc \in 1..5
          /\ app_name = "Foo"
          /\ main_js_path = <<"main.js">>
          /\ index_html_path = <<"index.html">>
          /\ electron_zip = ArchiveTree("top", BaseLeaves)
          /\ asset_paths = <<>>

-----------------------------------------------------------------------------
(* The library calls the script makes, as functions of the tree.  Each     *)
(* returns [ok, fs, err]: whether it returned normally, the tree it        *)
(* leaves, and the exception it raised.                                    *)

Ok(f) == [ok |-> TRUE, fs |-> f, err |-> "none"]

Err(f, e) == [ok |-> FALSE, fs |-> f, err |-> e]

\* the set of paths at which the loop of lines 37-40 can break.  os.walk is
\* top-down: a directory is tested before its subdirectories, symbolic links to
\* directories are listed in dirs and not descended into, and the order of the
\* subdirectories is the order os.scandir yields, which nothing fixes: whichever
\* subdirectory holding a match comes first decides.
RECURSIVE osWalkFind(_, _)
osWalkFind(f, top) ==
    LET dirs == {d \in listdir(f, top) : isdir(f, d)}
    IN  IF (top \o <<"Electron.app">>) \in dirs
        THEN {top \o <<"Electron.app">>}
        ELSE UNION {osWalkFind(f, d) : d \in {x \in dirs : ~islink(f, x)}}

\* the tree with the subtree at src moved to dst
MoveTree(f, src, dst) ==
    LET keep == {p \in DOMAIN f : ~IsPrefix(src, p) /\ ~IsPrefix(dst, p)}
        moved == [r \in {Rel(p, src) : p \in Subtree(f, src)} |-> f[src \o r]]
    IN  [q \in keep |-> f[q]] @@ Under(dst, moved)

\* rename(2): onto nothing, a non-directory onto a non-directory, or a
\* directory onto an empty directory
os_rename(f, src, dst) ==
    IF ~lexists(f, dst) THEN Ok(MoveTree(f, src, dst))
    ELSE IF f[src].kind # "dir" /\ f[dst].kind # "dir" THEN Ok(MoveTree(f, src, dst))
    ELSE IF f[src].kind = "dir" /\ f[dst].kind = "dir" /\ listdir(f, dst) = {}
         THEN Ok(MoveTree(f, src, dst))
    ELSE Err(f, "OSError")

\* shutil.move's os.rename, and its fallback when os.rename raises OSError: the
\* fallback (os.symlink for a link, copytree for a directory) finds real_dst
\* existing as well and raises
RenameOrCopy(f, src, real_dst) ==
    LET r == os_rename(f, src, real_dst)
    IN  IF r.ok THEN r ELSE Err(f, "FileExistsError")

\* shutil.move(src, dst): an existing directory dst receives src inside it
shutil_move(f, src, dst) ==
    IF isdir(f, dst)
    THEN IF realpath(f, src) = realpath(f, dst)
         THEN Ok(f)
         ELSE LET real_dst == dst \o <<basename(src)>>
              IN  IF exists(f, real_dst)
                  THEN Err(f, "shutil.Error")
                  ELSE RenameOrCopy(f, src, real_dst)
    ELSE RenameOrCopy(f, src, dst)

\* os.makedirs(path, exist_ok=True)
os_makedirs(f, path) ==
    LET chain == Ancestors(path) \cup {path}
    IN  IF \E q \in chain : lexists(f, q) /\ ~isdir(f, q)
        THEN Err(f, "FileExistsError")
        ELSE Ok([q \in {x \in chain : ~lexists(f, x)} |-> DirNode] @@ f)

\* the path open(p, 'w') writes: a symbolic link is followed
OpenTarget(f, p) ==
    IF ~islink(f, p) THEN p
    ELSE IF exists(f, p) THEN CHOOSE q \in realpath(f, p) : TRUE
    ELSE Parent(p) \o f[p].target

\* open(p, 'w') and write(data): an existing file keeps its mode, a new one
\* gets 0o644
open_w(f, p, data) ==
    LET t == OpenTarget(f, p)
    IN  IF isdir(f, t) THEN Err(f, "IsADirectoryError")
        ELSE IF ~isdir(f, Parent(t)) THEN Err(f, "FileNotFoundError")
        ELSE Ok((t :> FileNode(IF lexists(f, t) THEN f[t].mode ELSE 420, data)) @@ f)

\* shutil.copy2(src, dst) of a host file: content and mode
shutil_copy2(f, src, dst) ==
    IF src \notin DOMAIN HostFS THEN Err(f, "FileNotFoundError")
    ELSE IF host_isdir(src) THEN Err(f, "IsADirectoryError")
    ELSE LET d == IF isdir(f, dst) THEN dst \o <<basename(src)>> ELSE dst
             w == open_w(f, d, HostFS[src][<<>>].data)
         IN  IF ~w.ok THEN w
             ELSE Ok([w.fs EXCEPT ![OpenTarget(f, d)].mode = HostFS[src][<<>>].mode])

\* copytree with dirs_exist_ok=True: merges into an existing destination
shutil_copytree_DirsExistOk(f, src, dst) ==
    IF lexists(f, dst) /\ ~isdir(f, dst) THEN Err(f, "FileExistsError")
    ELSE Ok(Under(dst, HostFS[src]) @@ f)

\* shutil.copytree(src, dst) of a host directory: os.makedirs(dst) comes first
\* and raises when dst exists
shutil_copytree(f, src, dst) ==
    IF lexists(f, dst) THEN Err(f, "FileExistsError")
    ELSE Ok(Under(dst, HostFS[src]) @@ f)

\* os.chmod(p, mode): follows symbolic links
os_chmod(f, p, mode) ==
    IF ~exists(f, p) THEN f
    ELSE [f EXCEPT ![CHOOSE q \in realpath(f, p) : TRUE].mode = mode]

\* str.replace(old, new, count); a negative count replaces every occurrence
RECURSIVE str_replace(_, _, _, _)
str_replace(s, old, new, count) ==
    IF count = 0 \/ Len(s) < Len(old) THEN s
    ELSE IF SubSeq(s, 1, Len(old)) = old
         THEN new \o str_replace(SubSeq(s, Len(old) + 1, Len(s)), old, new,
                                 IF count > 0 THEN count - 1 ELSE count)
         ELSE SubSeq(s, 1, 1) \o str_replace(SubSeq(s, 2, Len(s)), old, new, count)

-----------------------------------------------------------------------------
(* main(), lines 139-171 *)

\* lines 140-142: too few arguments: usage text and sys.exit(1)
ParseArgs ==
    /\ pc = "main"
    /\ pc' = IF argc < 6 THEN "exit_usage" ELSE "mkdtemp"
    /\ UNCHANGED <<argc, app_name, main_js_path, index_html_path, electron_zip,
                   asset_paths, fs, electron_app_path, app_bundle_path, asset_idx,
                   output_tar, exc>>

\* line 159: TemporaryDirectory.__enter__ creates temp_dir (mode 0o700)
EnterTempDir ==
    /\ pc = "mkdtemp"
    /\ fs' = (<<>> :> [DirNode EXCEPT !.mode = 448])
    /\ pc' = "extract"
    /\ UNCHANGED <<argc, app_name, main_js_path, index_html_path, electron_zip,
                   asset_paths, electron_app_path, app_bundle_path, asset_idx,
                   output_tar, exc>>

\* a cleanup that runs on normal completion only
TemporaryDirectoryExit_OnSuccessOnly(f, e) == IF e = "none" THEN EmptyFS ELSE f

\* what leaving the with block does to the tree under temp_dir
TemporaryDirectoryExit(f, e) == EmptyFS

\* line 159: TemporaryDirectory.__exit__, on normal completion and on an exception
ExitTempDir ==
    /\ pc = "exit_with"
    /\ fs' = TemporaryDirectoryExit(fs, exc)
    /\ pc' = IF exc = "none" THEN "done" ELSE "failed"
    /\ UNCHANGED <<argc, app_name, main_js_path, index_html_path, electron_zip,
                   asset_paths, electron_app_path, app_bundle_path, asset_idx,
                   output_tar, exc>>

\* lines 18-30: unzip either succeeds, or exits non-zero having extracted
\* everything (warnings) or nothing
extract_electron ==
    /\ pc = "extract"
    /\ \E returncode \in {0, 1} :
         IF returncode # 0
         THEN /\ \E partial \in {fs, electron_zip @@ fs} : fs' = fs @@ partial
              /\ exc' = "ExtractError"
              /\ pc' = "exit_with"
         ELSE /\ fs' = fs @@ electron_zip
              /\ exc' = exc
              /\ pc' = "walk"
    /\ UNCHANGED <<argc, app_name, main_js_path, index_html_path, electron_zip,
                   asset_paths, electron_app_path, app_bundle_path, asset_idx,
                   output_tar>>

-----------------------------------------------------------------------------
(* create_app_bundle(), lines 33-88 *)

Raise(f, e) ==
    /\ fs' = f
    /\ exc' = e
    /\ pc' = "exit_with"

\* lines 36-43: the os.walk loop
LocateBundle ==
    /\ pc = "walk"
    /\ LET found == osWalkFind(fs, <<>>)
       IN  IF found = {}
           THEN /\ Raise(fs, "BundleNotFound")
                /\ electron_app_path' = electron_app_path
           ELSE /\ \E p \in found : electron_app_path' = p
                /\ pc' = "move"
                /\ UNCHANGED <<fs, exc>>
    /\ UNCHANGED <<argc, app_name, main_js_path, index_html_path, electron_zip,
                   asset_paths, app_bundle_path, asset_idx, output_tar>>

\* lines 46-47
RenameBundle ==
    /\ pc = "move"
    /\ app_bundle_path' = <<app_name \o ".app">>
    /\ LET r == shutil_move(fs, electron_app_path, <<app_name \o ".app">>)
       IN  IF r.ok
           THEN /\ fs' = r.fs
                /\ pc' = "entry"
                /\ exc' = exc
           ELSE Raise(r.fs, r.err)
    /\ UNCHANGED <<argc, app_name, main_js_path, index_html_path, electron_zip,
                   asset_paths, electron_app_path, asset_idx, output_tar>>

app_resources_dir == app_bundle_path \o ResourcesRel

\* lines 50-57: the resource directory, main.js and index.html
CopyEntryFiles ==
    /\ pc = "entry"
    /\ LET r1 == os_makedirs(fs, app_resources_dir)
           r2 == IF r1.ok
                 THEN shutil_copy2(r1.fs, main_js_path, app_resources_dir \o <<"main.js">>)
                 ELSE r1
           r3 == IF r2.ok
                 THEN shutil_copy2(r2.fs, index_html_path,
                                   app_resources_dir \o <<"index.html">>)
                 ELSE r2
       IN  IF r3.ok
           THEN /\ fs' = r3.fs
                /\ pc' = IF asset_paths = <<>> THEN "manifest" ELSE "assets"
                /\ exc' = exc
           ELSE Raise(r3.fs, r3.err)
    /\ UNCHANGED <<argc, app_name, main_js_path, index_html_path, electron_zip,
                   asset_paths, electron_app_path, app_bundle_path, asset_idx,
                   output_tar>>

\* lines 60-66: one iteration of the loop over asset_paths
CopyAsset ==
    /\ pc = "assets"
    /\ LET asset_path == asset_paths[asset_idx]
           r == IF host_isfile(asset_path)
                THEN shutil_copy2(fs, asset_path, app_resources_dir)
                ELSE IF host_isdir(asset_path)
                THEN shutil_copytree(fs, asset_path,
                                     app_resources_dir \o <<basename(asset_path)>>)
                ELSE Ok(fs)
       IN  IF r.ok
           THEN /\ fs' = r.fs
                /\ asset_idx' = asset_idx + 1
                /\ pc' = IF asset_idx = Len(asset_paths) THEN "manifest" ELSE "assets"
                /\ exc' = exc
           ELSE /\ Raise(r.fs, r.err)
                /\ asset_idx' = asset_idx
    /\ UNCHANGED <<argc, app_name, main_js_path, index_html_path, electron_zip,
                   asset_paths, electron_app_path, app_bundle_path, output_tar>>

\* json.dump of lines 69-73 (white space aside)
package_json(name) ==
    "{\"name\": \"" \o name \o "\", \"version\": \"1.0.0\", \"main\": \"main.js\"}"

\* lines 69-75
WriteManifest ==
    /\ pc = "manifest"
    /\ LET r == open_w(fs, app_resources_dir \o <<"package.json">>, package_json(app_name))
       IN  IF r.ok
           THEN /\ fs' = r.fs
                /\ pc' = "plist"
                /\ exc' = exc
           ELSE Raise(r.fs, r.err)
    /\ UNCHANGED <<argc, app_name, main_js_path, index_html_path, electron_zip,
                   asset_paths, electron_app_path, app_bundle_path, asset_idx,
                   output_tar>>

\* lines 83-84: the two substitutions, the second applied to the result of the first
PatchContent(content, name) ==
    str_replace(str_replace(content, DisplayString, NewDisplayString(name), 1),
                PackageString, NewPackageString(name), -1)

\* lines 78-86
PatchInfoPlist ==
    /\ pc = "plist"
    /\ LET info_plist_path == app_bundle_path \o InfoPlistRel
       IN  IF ~exists(fs, info_plist_path)
           THEN /\ pc' = "chmod"
                /\ UNCHANGED <<fs, exc>>
           ELSE IF isdir(fs, info_plist_path)
           THEN Raise(fs, "IsADirectoryError")
           ELSE LET t == OpenTarget(fs, info_plist_path)
                    r == open_w(fs, info_plist_path, PatchContent(fs[t].data, app_name))
                IN  /\ fs' = r.fs
                    /\ pc' = "chmod"
                    /\ exc' = exc
    /\ UNCHANGED <<argc, app_name, main_js_path, index_html_path, electron_zip,
                   asset_paths, electron_app_path, app_bundle_path, asset_idx,
                   output_tar>>

-----------------------------------------------------------------------------
(* create_tar_archive(), lines 91-136 *)

ExecMode == 493

\* lines 96-98 and 102-106: no islink test, and os.chmod follows a link
ChmodIfExists(f, p) == IF exists(f, p) THEN os_chmod(f, p, ExecMode) ELSE f

\* the entries of directory d the loops of lines 113-116 and 123-127 chmod
RegularEntries(f, d, suffix) ==
    {p \in listdir(f, d) : endswith(basename(p), suffix) /\ isfile(f, p) /\ ~islink(f, p)}

\* lines 112-117 and 122-128; os.listdir of a non-directory raises
ChmodEntries(f, d, suffix) ==
    IF ~exists(f, d) THEN Ok(f)
    ELSE IF ~isdir(f, d) THEN Err(f, "NotADirectoryError")
    ELSE Ok([p \in DOMAIN f |->
                IF p \in RegularEntries(f, d, suffix)
                THEN [f[p] EXCEPT !.mode = ExecMode] ELSE f[p]])

\* lines 95-128
FixPermissionsOf(f, bundle) ==
    LET f1 == ChmodIfExists(f, bundle \o ExeRel)
        f2 == ChmodIfExists(f1, bundle \o FrameworkRel)
        r3 == ChmodEntries(f2, bundle \o HelpersRel, "")
    IN  IF r3.ok THEN ChmodEntries(r3.fs, bundle \o LibsRel, ".dylib") ELSE r3

FixPermissions ==
    /\ pc = "chmod"
    /\ LET r == FixPermissionsOf(fs, app_bundle_path)
       IN  IF r.ok
           THEN /\ fs' = r.fs
                /\ pc' = "tar"
                /\ exc' = exc
           ELSE Raise(r.fs, r.err)
    /\ UNCHANGED <<argc, app_name, main_js_path, index_html_path, electron_zip,
                   asset_paths, electron_app_path, app_bundle_path, asset_idx,
                   output_tar>>

\* gettarinfo with dereference=True: stat, so a link is stored as what it names
TarInfo_Dereference(f, p) ==
    LET q == IF exists(f, p) THEN CHOOSE x \in realpath(f, p) : TRUE ELSE p
    IN  [type |-> CASE f[q].kind = "link" -> "SYMTYPE"
                    [] f[q].kind = "dir" -> "DIRTYPE"
                    [] f[q].kind = "file" -> "REGTYPE",
         mode |-> f[q].mode,
         linkname |-> f[q].target,
         data |-> f[q].data]

\* TarFile.gettarinfo with dereference=False (the default): lstat, so a
\* symbolic link becomes a SYMTYPE member
TarInfo(f, p) ==
    [type |-> CASE f[p].kind = "link" -> "SYMTYPE"
                [] f[p].kind = "dir" -> "DIRTYPE"
                [] f[p].kind = "file" -> "REGTYPE",
     mode |-> f[p].mode,
     linkname |-> f[p].target,
     data |-> f[p].data]

\* tar.add(path, arcname=arcname, filter=None): recursive
TarAdd(f, path, arcname) ==
    [q \in {arcname \o Rel(p, path) : p \in Subtree(f, path)} |->
        TarInfo(f, path \o Rel(q, arcname))]

\* lines 131-134.  tarfile.open creates the output file before tar.add writes
\* to it; either can raise OSError (no such directory, no space left)
WriteTar ==
    /\ pc = "tar"
    /\ LET members == TarAdd(fs, app_bundle_path, <<basename(app_bundle_path)>>)
       IN  \E outcome \in {"ok", "open_fails", "add_fails"} :
             CASE outcome = "ok" ->
                    /\ output_tar' = [state |-> "complete", entries |-> members]
                    /\ pc' = "exit_with"
                    /\ exc' = exc
               [] outcome = "open_fails" ->
                    /\ output_tar' = output_tar
                    /\ pc' = "exit_with"
                    /\ exc' = "OSError in tarfile.open"
               [] outcome = "add_fails" ->
                    /\ \E n \in {0, 1} :
                         output_tar' =
                            [state |-> "partial",
                             entries |-> [q \in {x \in DOMAIN members : Len(x) <= n}
                                            |-> members[q]]]
                    /\ pc' = "exit_with"
                    /\ exc' = "OSError in tar.add"
    /\ UNCHANGED <<argc, app_name, main_js_path, index_html_path, electron_zip,
                   asset_paths, fs, electron_app_path, app_bundle_path, asset_idx>>

Next ==
    \/ ParseArgs
    \/ EnterTempDir
    \/ extract_electron
    \/ LocateBundle
    \/ RenameBundle
    \/ CopyEntryFiles
    \/ CopyAsset
    \/ WriteManifest
    \/ PatchInfoPlist
    \/ FixPermissions
    \/ WriteTar
    \/ ExitTempDir

Spec == Init /\ [][Next]_vars

-----------------------------------------------------------------------------
(* Properties *)

Ended == pc \in {"done", "failed"}

\* C1: every run that gets past argument validation ends, normally or by a
\* fatal error, with the staging directory removed, wholly.
C1_StagingRemovedAtEnd == Ended => fs = EmptyFS

C1_Witness ==
    /\ pc = "failed"
    /\ exc = "FileNotFoundError"
    /\ electron_app_path # <<>>
    /\ fs = EmptyFS

\* C2: a run that ends in a fatal error, at any stage, the writing of the
\* archive included, leaves no output archive at the output path.
C2_NoOutputAfterFatalError == pc = "failed" => output_tar.state = "absent"

ZipLinks == {p \in DOMAIN electron_zip : electron_zip[p].kind = "link"}

IsSuffix(a, b) == Len(a) <= Len(b) /\ SubSeq(b, Len(b) - Len(a) + 1, Len(b)) = a

\* the output archive holds a symbolic-link member with this relative path and target
SymlinkMember(rel, target) ==
    \E q \in DOMAIN output_tar.entries :
        /\ IsSuffix(rel, q)
        /\ output_tar.entries[q].type = "SYMTYPE"
        /\ output_tar.entries[q].linkname = target

HasExecBit(mode) == (mode \div 64) % 2 = 1

\* C4: when the bundle of the runtime archive holds the main executable and the
\* framework binary, both are recorded in the output archive, under
\* <appName>.app, with the executable bit, whatever their mode in the archive;
\* and nothing is written to the output before the permission step is over.
C4_ExecutableBitsInOutput ==
    /\ output_tar.state # "absent" => pc \in {"exit_with", "done", "failed"}
    /\ (/\ pc = "done"
        /\ (electron_app_path \o ExeRel) \in DOMAIN electron_zip
        /\ (electron_app_path \o FrameworkRel) \in DOMAIN electron_zip)
       => \A r \in {ExeRel, FrameworkRel} :
             LET q == <<app_name \o ".app">> \o r
             IN  /\ q \in DOMAIN output_tar.entries
                 /\ HasExecBit(output_tar.entries[q].mode)

\* the four permission targets under the bundle
PermissionTargets(f, bundle) ==
    {bundle \o ExeRel, bundle \o FrameworkRel}
    \cup listdir(f, bundle \o HelpersRel)
    \cup {p \in listdir(f, bundle \o LibsRel) : endswith(basename(p), ".dylib")}

\* C5: the permission step changes the mode of a path only if the path is a
\* regular file and one of the permission targets: a symbolic link, the file a
\* link names, and every path outside the targets keep their mode.
C5_OnlyRegularTargetsChange ==
    [][pc = "chmod" =>
         \A p \in DOMAIN fs :
            (p \in DOMAIN fs' /\ fs'[p].mode # fs[p].mode) =>
                (fs[p].kind = "file" /\ p \in PermissionTargets(fs, app_bundle_path))]_vars

\* C6: when an asset path names neither a file nor a directory, the assembly
\* fails: no later stage runs and no output archive is produced.
C6_MissingAssetFails ==
    (\E i \in 1..Len(asset_paths) : asset_paths[i] \notin DOMAIN HostFS) =>
        /\ pc \notin {"manifest", "plist", "chmod", "tar", "done"}
        /\ output_tar.state = "absent"

\* C7: when a directory named <appName>.app already exists in the staging
\* directory, the rename fails: the tree is left as it was, no later stage runs
\* and no output archive is produced.
C7_RenameOntoExistingFails ==
    [][(pc = "move" /\ isdir(fs, <<app_name \o ".app">>)) =>
         (/\ exc' # "none"
          /\ pc' = "exit_with"
          /\ fs' = fs
          /\ output_tar' = NoOutput)]_vars

\* the asset the loop handles next is a directory whose destination exists
AssetDirCollides ==
    /\ pc = "assets"
    /\ host_isdir(asset_paths[asset_idx])
    /\ lexists(fs, app_resources_dir \o <<basename(asset_paths[asset_idx])>>)

\* C8: a directory asset whose destination <resource dir>/<basename> exists
\* when it is handled makes the assembly fail with nothing merged or
\* overwritten, and the run ends without an output archive.
C8_DirCollisionFails ==
    /\ [][AssetDirCollides =>
            (/\ exc' = "FileExistsError"
             /\ pc' = "exit_with"
             /\ fs' = fs
             /\ output_tar' = NoOutput)]_vars
    /\ []((Ended /\ exc = "FileExistsError") => output_tar = NoOutput)

C8_Witness ==
    /\ pc = "exit_with"
    /\ exc = "FileExistsError"
    /\ asset_idx = 2
    /\ host_isdir(asset_paths[asset_idx])
    /\ isdir(fs, app_resources_dir \o <<basename(asset_paths[asset_idx])>>)
    /\ output_tar = NoOutput

\* the patch as stated: in the original text, the first occurrence of the
\* display string becomes the application name and every occurrence of the
\* package string becomes the organisation prefix and the application name
RECURSIVE ClaimedPatch(_, _, _)
ClaimedPatch(s, name, first_done) ==
    IF Len(s) = 0 THEN s
    ELSE IF IsPrefix(PackageString, s)
         THEN NewPackageString(name)
              \o ClaimedPatch(Rel(s, PackageString), name, first_done)
    ELSE IF ~first_done /\ IsPrefix(DisplayString, s)
         THEN NewDisplayString(name) \o ClaimedPatch(Rel(s, DisplayString), name, TRUE)
    ELSE SubSeq(s, 1, 1) \o ClaimedPatch(SubSeq(s, 2, Len(s)), name, first_done)

\* C9: once the metadata step is over, the descriptor of the bundle, if the
\* runtime archive's bundle has one, holds the original text patched as stated,
\* for every application name; if it has none, no descriptor was created.
C9_PlistPatchedAsStated ==
    pc \in {"chmod", "tar"} =>
        LET orig == electron_app_path \o InfoPlistRel
            now == <<app_name \o ".app">> \o InfoPlistRel
        IN  IF orig \in DOMAIN electron_zip
            THEN /\ now \in DOMAIN fs
                 /\ fs[now].data = ClaimedPatch(electron_zip[orig].data, app_name, FALSE)
            ELSE now \notin DOMAIN fs

\* C10: the bundle root found in a given staging tree does not depend on the
\* order in which directory entries are enumerated, and the search fails
\* exactly when the tree holds no directory named Electron.app.
C10_LocateDeterministic ==
    /\ pc = "move" => osWalkFind(fs, <<>>) = {electron_app_path}
    /\ exc = "BundleNotFound" =>
          ~\E p \in DOMAIN electron_zip : Len(p) > 0 /\ basename(p) = "Electron.app"

====
